---------------------------- MODULE Spec2Model ----------------------------
(***************************************************************************)
(* A model of media-library-witch (src/src/main.py): the subtitle locale   *)
(* fixer (SubtitleLocaleFixer), its CSV rule loader (Rule.from_csv) and    *)
(* the directory organizer (MediaOrganizer).                               *)
(*                                                                         *)
(* Strings are sequences of one-character strings, so that rsplit, lower() *)
(* and the f-string concatenations are computed as the code computes them. *)
(* An Optional value is None (the empty tuple) or Some(v) (a 1-tuple).     *)
(***************************************************************************)
EXTENDS Integers, Sequences, FiniteSets, TLC

VARIABLES
    pc,              \* position of the running operation
    rules,           \* SubtitleLocaleFixer.rules
    default_locale,  \* SubtitleLocaleFixer.default_locale (Optional string)
    filename,        \* argument of the last fix_name call
    result,          \* value returned by the last fix_name call
    csv_header,      \* from_csv: the column names of the file (DictReader.fieldnames)
    csv_rows,        \* from_csv: the rows DictReader yields, in file order
    csv_idx,         \* from_csv: index of the next row of the for loop
    csv_rules,       \* from_csv: the local list "rules"
    csv_returned,    \* from_csv: Some(value returned), None before the return
    mappings,        \* main: the local list "mappings"
    exc,             \* the exception that ended the operation, "" when none
    dirs,            \* filesystem: the set of directory paths
    files,           \* filesystem: file path -> content
    files0,          \* the files as they were when organize_directory was called
    target,          \* MediaOrganizer.target
    stack,           \* organize_directory: the frames of the calls in progress
    cur,             \* _move_subtitles: the subtitle being moved
    moved            \* the file moves that have ended, with how each ended

fixVars == <<rules, default_locale, filename, result>>
csvVars == <<csv_header, csv_rows, csv_idx, csv_rules, csv_returned, mappings>>
orgVars == <<dirs, files, files0, target, stack, cur, moved>>
vars == <<pc, exc, fixVars, csvVars, orgVars>>

---------------------------------------------------------------------------
(* Bounds of the model. *)
MaxRules == 2
MaxParts == 4
MaxRows == 2
MaxDepth == 3

---------------------------------------------------------------------------
(* Strings and Optional values. *)
None == <<>>
Some(v) == <<v>>

DOT == "."

UpperLetters == <<"A", "B", "C", "D", "E", "F", "G", "H", "I", "J", "K", "L", "M",
                  "N", "O", "P", "Q", "R", "S", "T", "U", "V", "W", "X", "Y", "Z">>
LowerLetters == <<"a", "b", "c", "d", "e", "f", "g", "h", "i", "j", "k", "l", "m",
                  "n", "o", "p", "q", "r", "s", "t", "u", "v", "w", "x", "y", "z">>

\* str.lower() of one character (ASCII).
LowerChar(c) ==
    IF \E i \in 1..26 : UpperLetters[i] = c
    THEN LowerLetters[CHOOSE i \in 1..26 : UpperLetters[i] = c]
    ELSE c

Lower(s) == [i \in 1..Len(s) |-> LowerChar(s[i])]

\* The largest index of sep in s, 0 when s does not contain it (str.rfind + 1).
RFind(s, sep) ==
    LET hits == {i \in 1..Len(s) : s[i] = sep}
    IN IF hits = {} THEN 0 ELSE CHOOSE i \in hits : \A j \in hits : j <= i

\* str.rsplit(sep, maxsplit): split from the right, at most maxsplit times.
RECURSIVE RSplit(_, _, _)
RSplit(s, sep, maxsplit) ==
    LET i == RFind(s, sep)
    IN IF maxsplit = 0 \/ i = 0
       THEN <<s>>
       ELSE Append(RSplit(SubSeq(s, 1, i - 1), sep, maxsplit - 1),
                   SubSeq(s, i + 1, Len(s)))

---------------------------------------------------------------------------
(* SubtitleLocaleFixer. *)

Rule(src, tgt, cs) ==
    [source |-> src, target |-> tgt, case_sensitive |-> cs]

\* The number of splits fix_name asks rsplit for.
MaxSplit == 2

\* Mutant: the case_sensitive flag is ignored, every rule compares lower-cased.
RuleMatches_IgnoreFlag(rule, lang) ==
    Lower(lang) = Lower(rule.source)

\* The condition of the scan's if statement.
RuleMatches(rule, lang) ==
    \/ rule.case_sensitive /\ lang = rule.source
    \/ ~rule.case_sensitive /\ Lower(lang) = Lower(rule.source)

\* The for loop over self.rules from index i: Some(target) of the first rule
\* that matches, None when the loop runs off the end.
RECURSIVE ScanRules(_, _, _)
ScanRules(rs, lang, i) ==
    IF i > Len(rs) THEN None
    ELSE IF RuleMatches(rs[i], lang) THEN Some(rs[i].target)
    ELSE ScanRules(rs, lang, i + 1)

\* Mutant: the default locale is used whenever no rule returned, tag or not.
DefaultApplies_NoTagCheck(dl, lang) ==
    dl # None /\ dl[1] # <<>>

\* Mutant: the tag test is inverted ("lang is not None").
DefaultApplies_TagRequired(dl, lang) ==
    (dl # None /\ dl[1] # <<>>) /\ lang # None

\* "if self.default_locale and lang is None"
DefaultApplies(dl, lang) ==
    (dl # None /\ dl[1] # <<>>) /\ lang = None

fix_name(rs, dl, fname) ==
    LET parts == RSplit(fname, DOT, MaxSplit)
    IN IF Len(parts) < 2 THEN fname
       ELSE
         LET name == parts[1]
             lang == IF Len(parts) = 3 THEN Some(parts[2]) ELSE None
             ext  == parts[Len(parts)]
             hit  == IF lang # None /\ lang[1] # <<>>
                     THEN ScanRules(rs, lang[1], 1)
                     ELSE None
         IN IF hit # None THEN name \o <<DOT>> \o hit[1] \o <<DOT>> \o ext
            ELSE IF DefaultApplies(dl, lang)
                 THEN name \o <<DOT>> \o dl[1] \o <<DOT>> \o ext
                 ELSE fname

---------------------------------------------------------------------------
(* Inputs of the fixer. *)
en == <<"e", "n">>
EN == <<"E", "N">>
eng == <<"e", "n", "g">>
fra == <<"f", "r", "a">>
de == <<"d", "e">>

RuleSources == {en, EN}
RuleTargets == {eng, fra}
\* The third value of a --locale-rule triple, as typed.
FlagStrings == {<<"t", "r", "u", "e">>, <<"T", "R", "U", "E">>,
                <<"f", "a", "l", "s", "e">>, <<>>}
DefaultLocales == {None, Some(<<>>), Some(de)}

\* The pieces filenames are made of, joined by dots.
Segments == {<<>>, en, EN}

RECURSIVE Join(_)
Join(ps) ==
    IF Len(ps) = 1 THEN ps[1]
    ELSE ps[1] \o <<DOT>> \o Join(Tail(ps))

Filenames == {Join(ps) : ps \in UNION {[1..k -> Segments] : k \in 1..MaxParts}}

\* "cs.lower() == 'true'"
ParseFlag(cs) == Lower(cs) = <<"t", "r", "u", "e">>

---------------------------------------------------------------------------
(* The fixer as main() configures it and as the organizer calls it. *)

\* SubtitleLocaleFixer(): no rules, no default locale.
FixerNew ==
    /\ rules = <<>>
    /\ default_locale = None
    /\ filename = <<>>
    /\ result = <<>>

\* No CSV file is being loaded.
CsvIdle ==
    /\ csv_header = {}
    /\ csv_rows = <<>>
    /\ csv_idx = 1
    /\ csv_rules = <<>>
    /\ csv_returned = None
    /\ mappings = <<>>

\* No MediaOrganizer exists.
OrgIdle ==
    /\ dirs = {}
    /\ files = <<>>
    /\ files0 = <<>>
    /\ target = <<>>
    /\ stack = <<>>
    /\ cur = <<>>
    /\ moved = {}

FixInit ==
    /\ pc = "config"
    /\ exc = ""
    /\ FixerNew
    /\ CsvIdle
    /\ OrgIdle

\* main(): one --locale-rule triple becomes a Rule at the end of the list.
AddLocaleRule ==
    /\ pc = "config"
    /\ Len(rules) < MaxRules
    /\ \E src \in RuleSources, tgt \in RuleTargets, cs \in FlagStrings :
         rules' = Append(rules, Rule(src, tgt, ParseFlag(cs)))
    /\ UNCHANGED <<pc, exc, default_locale, filename, result, csvVars, orgVars>>

\* main(): fixer.default_locale = args.default_locale
SetDefaultLocale ==
    /\ pc = "config"
    /\ default_locale = None
    /\ \E d \in DefaultLocales \ {None} : default_locale' = d
    /\ UNCHANGED <<pc, exc, rules, filename, result, csvVars, orgVars>>

\* One call of fix_name.
FixName ==
    /\ pc = "config"
    /\ \E f \in Filenames :
         /\ filename' = f
         /\ result' = fix_name(rules, default_locale, f)
    /\ pc' = "fixed"
    /\ UNCHANGED <<exc, rules, default_locale, csvVars, orgVars>>

FixNext == AddLocaleRule \/ SetDefaultLocale \/ FixName

SpecFix == FixInit /\ [][FixNext]_vars

---------------------------------------------------------------------------
(* Rule.from_csv and the lines of main() that use it.                      *)
(*                                                                         *)
(* csv.DictReader yields one dict per row, keyed by the header's column    *)
(* names; a row shorter than the header has None (restval) in the columns  *)
(* it lacks. A row is modelled as a record of Optional strings, read       *)
(* through the header: Get and Item below.                                 *)

Columns == {"source", "target", "is_case_sensitive"}

Headers == {Columns, {"source", "target"}, {"target", "is_case_sensitive"}}

FlagTrue == <<"T", "r", "u", "e">>
FlagNo == <<"n", "o">>
FlagFalse == <<"f", "a", "l", "s", "e">>

CellValues(col) ==
    CASE col = "source" -> {None, Some(<<>>), Some(en)}
      [] col = "target" -> {None, Some(<<>>), Some(eng)}
      [] col = "is_case_sensitive" -> {None, Some(FlagTrue), Some(FlagNo)}

\* The rows a file with header h can hold; a column the header lacks is not
\* in the dict (kept as None in the record and never read).
RowsOf(h) ==
    {r \in [Columns -> {None, Some(<<>>), Some(en), Some(eng),
                        Some(FlagTrue), Some(FlagNo)}] :
        \A c \in Columns :
            IF c \in h THEN r[c] \in CellValues(c) ELSE r[c] = None}

FilesOf(h) == UNION {[1..n -> RowsOf(h)] : n \in 0..MaxRows}

\* The rules main() has built from --locale-rule before it reads the file.
CliMappings == {<<>>, <<Rule(EN, fra, TRUE)>>}

\* row[col]: the cell, or KeyError when the header has no such column.
HasKey(h, col) == col \in h

\* row.get(col, default)
Get(h, row, col, default) == IF col \in h THEN row[col] ELSE Some(default)

\* The exception building the rule of one row raises, "" when none: the
\* keyword arguments are evaluated left to right.
RowError(h, row) ==
    IF ~HasKey(h, "source") THEN "KeyError"
    ELSE IF ~HasKey(h, "target") THEN "KeyError"
    ELSE IF Get(h, row, "is_case_sensitive", FlagFalse) = None
         THEN "AttributeError"
    ELSE ""

\* cls(source=row["source"], target=row["target"], case_sensitive=...);
\* source and target are the cells as they are (Optional strings).
RowRule(h, row) ==
    Rule(row["source"], row["target"],
         Lower(Get(h, row, "is_case_sensitive", FlagFalse)[1])
             = <<"t", "r", "u", "e">>)

\* What from_csv hands back when the loop has ended: the function has no
\* return statement, so the call evaluates to Python's None whatever the
\* local list holds. Some(None) is "returned None".
FromCsvValue(local_rules) == None

CsvInit ==
    /\ pc = "csv_loop"
    /\ exc = ""
    /\ FixerNew
    /\ csv_header \in Headers
    /\ csv_rows \in FilesOf(csv_header)
    /\ csv_idx = 1
    /\ csv_rules = <<>>
    /\ csv_returned = None
    /\ mappings \in CliMappings
    /\ OrgIdle

\* One iteration of "for row in csv.DictReader(f)".
FromCsvRow ==
    /\ pc = "csv_loop"
    /\ csv_idx <= Len(csv_rows)
    /\ LET row == csv_rows[csv_idx]
           err == RowError(csv_header, row)
       IN IF err # ""
          THEN /\ pc' = "raised"
               /\ exc' = err
               /\ UNCHANGED <<csv_idx, csv_rules>>
          ELSE /\ csv_rules' = Append(csv_rules, RowRule(csv_header, row))
               /\ csv_idx' = csv_idx + 1
               /\ UNCHANGED <<pc, exc>>
    /\ UNCHANGED <<fixVars, orgVars, csv_header, csv_rows, csv_returned, mappings>>

\* The loop is over and the function body ends.
FromCsvReturn ==
    /\ pc = "csv_loop"
    /\ csv_idx > Len(csv_rows)
    /\ csv_returned' = Some(FromCsvValue(csv_rules))
    /\ pc' = "csv_returned"
    /\ UNCHANGED <<exc, fixVars, orgVars, csv_header, csv_rows, csv_idx, csv_rules, mappings>>

\* main(): mappings.extend(SubtitleLocaleFixer.Rule.from_csv(args.locale_csv));
\* list.extend(None) raises TypeError.
MainExtendCsv ==
    /\ pc = "csv_returned"
    /\ IF csv_returned[1] = None
       THEN /\ pc' = "raised"
            /\ exc' = "TypeError"
            /\ UNCHANGED mappings
       ELSE /\ mappings' = mappings \o csv_returned[1][1]
            /\ pc' = "main_extended"
            /\ UNCHANGED exc
    /\ UNCHANGED <<fixVars, orgVars, csv_header, csv_rows, csv_idx, csv_rules, csv_returned>>

CsvNext == FromCsvRow \/ FromCsvReturn \/ MainExtendCsv

SpecCsv == CsvInit /\ [][CsvNext]_vars

---------------------------------------------------------------------------
(* MediaOrganizer, over a filesystem of paths. A path is the sequence of    *)
(* names from the root of the modelled tree; a name is a string. dirs holds *)
(* the directories, files maps each file to its content. Directory listings *)
(* have no order the code can rely on (Path.iterdir), so every loop over    *)
(* one takes its next item from the set of those left.                      *)

Name(p) == p[Len(p)]
Parent(p) == SubSeq(p, 1, Len(p) - 1)
ChildOf(p, d) == Len(p) = Len(d) + 1 /\ Parent(p) = d
IsPrefix(d, p) == Len(d) <= Len(p) /\ SubSeq(p, 1, Len(d)) = d

\* PurePath.suffix: from the last dot on, unless the name starts or ends there.
Suffix(name) ==
    LET i == RFind(name, DOT)
    IN IF 1 < i /\ i < Len(name) THEN SubSeq(name, i, Len(name)) ELSE <<>>

\* "x in name" for strings.
Contains(str, sub) ==
    \E k \in 0..(Len(str) - Len(sub)) : SubSeq(str, k + 1, k + Len(sub)) = sub

VideoSuffixes == {<<".", "m", "k", "v">>, <<".", "m", "p", "4">>,
                  <<".", "m", "2", "t", "s">>, <<".", "t", "s">>}
SubtitleSuffixes == {<<".", "s", "r", "t">>, <<".", "a", "s", "s">>,
                     <<".", "s", "s", "a">>, <<".", "s", "u", "p">>}
ExtraKeywords == {<<"b", "o", "n", "u", "s">>, <<"e", "x", "t", "r", "a">>,
                  <<"f", "e", "a", "t", "u", "r", "e">>,
                  <<"b", "e", "h", "i", "n", "d">>}

IsVideo(name) == Lower(Suffix(name)) \in VideoSuffixes
IsSubtitle(name) == ~IsVideo(name) /\ Lower(Suffix(name)) \in SubtitleSuffixes
IsExtra(name) == \E x \in ExtraKeywords : Contains(Lower(name), x)

DecimalDigits == <<"0", "1", "2", "3", "4", "5", "6", "7", "8", "9">>

RECURSIVE Decimal(_)
Decimal(n) ==
    IF n < 10 THEN <<DecimalDigits[n + 1]>>
    ELSE Append(Decimal(n \div 10), DecimalDigits[(n % 10) + 1])

\* format(n, "02d") for n >= 0.
Format02d(n) == IF n < 10 THEN <<"0">> \o Decimal(n) ELSE Decimal(n)

\* f"Season {season:02d}"
SeasonName(n) == <<"S", "e", "a", "s", "o", "n", " ">> \o Format02d(n)
EXTRA == <<"E", "X", "T", "R", "A">>

\* The values organize_directory receives as season.
IntSeason(n) == [kind |-> "int", num |-> n, path |-> <<>>]
NoSeason == [kind |-> "none", num |-> 0, path |-> <<>>]
PathSeason(p) == [kind |-> "path", num |-> 0, path |-> p]

\* What f"{season:02d}" raises: the d format is for int alone.
FormatError(season) == IF season.kind = "int" THEN "" ELSE "TypeError"

\* The directories the two mkdir calls make: season_dir and extra_dir.parent.
MadeDirs(season_dir, extra_dir) == {season_dir, Parent(extra_dir)}

\* The loop over directory.iterdir(): videos, subtitles and subdirectories.
Listing(d) ==
    [video_files |-> {p \in DOMAIN files : ChildOf(p, d) /\ IsVideo(Name(p))},
     sub_files |-> {p \in DOMAIN files : ChildOf(p, d) /\ IsSubtitle(Name(p))},
     extra_candidates |-> {p \in dirs : ChildOf(p, d)}]

\* "self.organize_directory(subdir, None)": the parameters are
\* (season, directory), so subdir is the season and the directory is None.
CallArgs(subdir) == [season |-> PathSeason(subdir), directory |-> None]

\* The frame of a call organize_directory(season, directory), with the
\* listing done: "if not directory: directory = self.target".
EnterFrame(season, directory) ==
    LET d == IF directory = None THEN target ELSE directory[1]
        l == Listing(d)
    IN [season |-> season,
        directory |-> d,
        video_files |-> l.video_files,
        sub_files |-> l.sub_files,
        extra_candidates |-> l.extra_candidates,
        todo |-> {}]

Top == stack[Len(stack)]
SeasonDir(f) == Append(f.directory, SeasonName(f.season.num))
ExtraDir(f) == f.directory \o <<EXTRA, SeasonName(f.season.num)>>

WithTodo(items) == [stack EXCEPT ![Len(stack)].todo = items]
TodoLess(item) == [stack EXCEPT ![Len(stack)].todo = @ \ {item}]

Content(p) == [origin |-> p, whole |-> TRUE]
Partial(data) == [origin |-> data.origin, whole |-> FALSE]
NoCur == [src |-> <<>>, dst |-> <<>>, data |-> Content(<<>>), dst_was_there |-> FALSE]

Put(fs, p, data) == [q \in DOMAIN fs \cup {p} |-> IF q = p THEN data ELSE fs[q]]
Remove(fs, p) == [q \in DOMAIN fs \ {p} |-> fs[q]]

\* The path p of the tree under src, seen under dst.
Rebase(p, src, dst) == dst \o SubSeq(p, Len(src) + 1, Len(p))

Ended(kind, src, dst, ok, was_there) ==
    [kind |-> kind, src |-> src, dst |-> dst, ok |-> ok, dst_was_there |-> was_there]

Raise(e) == pc' = "raised" /\ exc' = e

---------------------------------------------------------------------------
(* The directories organize_directory is run on. *)

vidA == <<"a", ".", "m", "k", "v">>
vidB == <<"b", ".", "M", "P", "4">>
vidC == <<"c", ".", "t", "s">>
subENG == <<"S", ".", "E", "N", "G", ".", "s", "r", "t">>
subEn == <<"S", ".", "e", "n", ".", "s", "r", "t">>
subAss == <<"S", ".", "a", "s", "s">>
notes == <<"n", ".", "t", "x", "t">>
Bonus == <<"B", "o", "n", "u", "s">>
d1 == <<"d", "1">>
d2 == <<"d", "2">>
show == <<"s", "h", "o", "w">>

VideoChoices == {{}, {vidA, vidB}, {vidA, vidB, vidC}}
SubtitleChoices == SUBSET {subENG, subEn, subAss}
\* Season 01, when it is there beforehand, holds a subtitle S.en.srt.
DirChoices == {{}, {Bonus}, {Bonus, d1, d2}, {SeasonName(1)},
               {Bonus, SeasonName(1)}}
SeasonArgs == {IntSeason(1), IntSeason(12), NoSeason}

\* The directory the call names and the directories beside it in the target:
\* the target itself, a folder alone in the target, a folder among three.
Entries == {[directory |-> None, d |-> <<>>, beside |-> {}],
            [directory |-> Some(<<show>>), d |-> <<show>>, beside |-> {}],
            [directory |-> Some(<<show>>), d |-> <<show>>, beside |-> {<<d1>>, <<d2>>}]}

OrgRules == <<Rule(eng, en, FALSE)>>

OrgInit ==
    /\ pc = "check"
    /\ exc = ""
    /\ CsvIdle
    /\ filename = <<>>
    /\ result = <<>>
    /\ rules = OrgRules
    /\ default_locale \in {None, Some(en)}
    /\ target = <<>>
    /\ \E e \in Entries, vs \in VideoChoices, ss \in SubtitleChoices,
          ds \in DirChoices, season \in SeasonArgs :
         LET here == {Append(e.d, n) : n \in vs \cup ss \cup {notes}}
             old  == IF SeasonName(1) \in ds
                     THEN {e.d \o <<SeasonName(1), subEn>>}
                     ELSE {}
         IN /\ dirs = {<<>>, e.d} \cup e.beside \cup {Append(e.d, n) : n \in ds}
            /\ files = [p \in here \cup old |-> Content(p)]
            /\ stack = <<EnterFrame(season, e.directory)>>
    /\ files0 = files
    /\ cur = NoCur
    /\ moved = {}

orgFrame == <<fixVars, csvVars, files0, target>>

\* "if len(video_files) <= 2 and len(extra_candidates) >= 3"
OrgCheck ==
    /\ pc = "check"
    /\ IF /\ Cardinality(Top.video_files) <= 2
          /\ Cardinality(Top.extra_candidates) >= 3
       THEN /\ pc' = "container"
            /\ stack' = WithTodo(Top.extra_candidates)
       ELSE /\ pc' = "format"
            /\ UNCHANGED stack
    /\ UNCHANGED <<exc, dirs, files, cur, moved, orgFrame>>

\* "for subdir in extra_candidates: self.organize_directory(subdir, None)",
\* then "return". A call beyond the interpreter's recursion limit raises
\* RecursionError.
OrgContainerLoop ==
    /\ pc = "container"
    /\ IF Top.todo = {}
       THEN /\ pc' = "return"
            /\ UNCHANGED <<stack, exc>>
       ELSE \E subdir \in Top.todo :
              IF Len(stack) >= MaxDepth
              THEN /\ Raise("RecursionError")
                   /\ UNCHANGED stack
              ELSE /\ stack' = Append(TodoLess(subdir),
                                      EnterFrame(CallArgs(subdir).season,
                                                 CallArgs(subdir).directory))
                   /\ pc' = "check"
                   /\ UNCHANGED exc
    /\ UNCHANGED <<dirs, files, cur, moved, orgFrame>>

\* The two f-strings and the two mkdir(exist_ok=True) calls.
OrgMakeDirs ==
    /\ pc = "format"
    /\ LET err == FormatError(Top.season)
       IN IF err # ""
          THEN /\ Raise(err)
               /\ UNCHANGED <<dirs, stack>>
          ELSE IF \E q \in MadeDirs(SeasonDir(Top), ExtraDir(Top)) : q \in DOMAIN files
          THEN /\ Raise("FileExistsError")
               /\ UNCHANGED <<dirs, stack>>
          ELSE /\ dirs' = dirs \cup MadeDirs(SeasonDir(Top), ExtraDir(Top))
               /\ stack' = WithTodo(Top.video_files)
               /\ pc' = "videos"
               /\ UNCHANGED exc
    /\ UNCHANGED <<files, cur, moved, orgFrame>>

\* _move_videos, one file: f.rename(dest.joinpath(f.name)).
OrgMoveVideo ==
    /\ pc = "videos"
    /\ \E f \in Top.todo :
         LET dst == Append(SeasonDir(Top), Name(f))
         IN /\ files' = Put(Remove(files, f), dst, files[f])
            /\ moved' = moved \cup {Ended("video", f, dst, TRUE, dst \in DOMAIN files)}
            /\ stack' = TodoLess(f)
    /\ UNCHANGED <<pc, exc, dirs, cur, orgFrame>>

\* The rename fails: the operating system leaves both names as they were.
OrgMoveVideoFails ==
    /\ pc = "videos"
    /\ \E f \in Top.todo :
         LET dst == Append(SeasonDir(Top), Name(f))
         IN moved' = moved \cup {Ended("video", f, dst, FALSE, dst \in DOMAIN files)}
    /\ Raise("OSError")
    /\ UNCHANGED <<dirs, files, stack, cur, orgFrame>>

OrgVideosDone ==
    /\ pc = "videos"
    /\ Top.todo = {}
    /\ stack' = WithTodo(Top.sub_files)
    /\ pc' = "subs"
    /\ UNCHANGED <<exc, dirs, files, cur, moved, orgFrame>>

\* _move_subtitles, one file: fix_name(f.name), then f.read_bytes().
OrgSubRead ==
    /\ pc = "subs"
    /\ \E f \in Top.todo :
         LET dst == Append(SeasonDir(Top), fix_name(rules, default_locale, Name(f)))
         IN cur' = [src |-> f, dst |-> dst, data |-> files[f],
                    dst_was_there |-> dst \in DOMAIN files]
    /\ pc' = "sub_write"
    /\ UNCHANGED <<exc, dirs, files, stack, moved, orgFrame>>

OrgSubReadFails ==
    /\ pc = "subs"
    /\ \E f \in Top.todo :
         LET dst == Append(SeasonDir(Top), fix_name(rules, default_locale, Name(f)))
         IN moved' = moved \cup {Ended("subtitle", f, dst, FALSE, dst \in DOMAIN files)}
    /\ Raise("OSError")
    /\ UNCHANGED <<dirs, files, stack, cur, orgFrame>>

\* dest.joinpath(fixed_name).write_bytes(data): the file is opened for
\* writing, whatever was there is replaced.
OrgSubWrite ==
    /\ pc = "sub_write"
    /\ files' = Put(files, cur.dst, cur.data)
    /\ pc' = "sub_unlink"
    /\ UNCHANGED <<exc, dirs, stack, cur, moved, orgFrame>>

\* write_bytes fails: in open (nothing is written) or in write, after open
\* has made or emptied the file.
OrgSubWriteFails ==
    /\ pc = "sub_write"
    /\ \E opened \in BOOLEAN :
         files' = IF opened THEN Put(files, cur.dst, Partial(cur.data)) ELSE files
    /\ moved' = moved \cup {Ended("subtitle", cur.src, cur.dst, FALSE, cur.dst_was_there)}
    /\ Raise("OSError")
    /\ UNCHANGED <<dirs, stack, cur, orgFrame>>

\* f.unlink()
OrgSubUnlink ==
    /\ pc = "sub_unlink"
    /\ files' = Remove(files, cur.src)
    /\ moved' = moved \cup {Ended("subtitle", cur.src, cur.dst, TRUE, cur.dst_was_there)}
    /\ stack' = TodoLess(cur.src)
    /\ pc' = "subs"
    /\ UNCHANGED <<exc, dirs, cur, orgFrame>>

OrgSubUnlinkFails ==
    /\ pc = "sub_unlink"
    /\ moved' = moved \cup {Ended("subtitle", cur.src, cur.dst, FALSE, cur.dst_was_there)}
    /\ Raise("OSError")
    /\ UNCHANGED <<dirs, files, stack, cur, orgFrame>>

OrgSubsDone ==
    /\ pc = "subs"
    /\ Top.todo = {}
    /\ stack' = WithTodo(Top.extra_candidates)
    /\ pc' = "extras"
    /\ UNCHANGED <<exc, dirs, files, cur, moved, orgFrame>>

\* _move_extras, one directory: shutil.move(d, extra_dest/d.name) when the
\* lower-cased name holds a keyword. shutil.move renames, and when the
\* rename fails for want of extra_dest it copies the tree, making the
\* missing directories, and removes the source; it refuses to move a
\* directory into itself.
OrgMoveExtra ==
    /\ pc = "extras"
    /\ \E d \in Top.todo :
         LET dst == Append(ExtraDir(Top), Name(d))
         IN /\ IF ~IsExtra(Name(d))
               THEN UNCHANGED <<pc, exc, dirs, files>>
               ELSE IF IsPrefix(d, dst)
               THEN /\ Raise("shutil.Error")
                    /\ UNCHANGED <<dirs, files>>
               ELSE /\ dirs' = {q \in dirs : ~IsPrefix(d, q)}
                               \cup {ExtraDir(Top)}
                               \cup {Rebase(q, d, dst) : q \in {r \in dirs : IsPrefix(d, r)}}
                    /\ files' = [q \in {r \in DOMAIN files : ~IsPrefix(d, r)}
                                       \cup {Rebase(r, d, dst) :
                                               r \in {t \in DOMAIN files : IsPrefix(d, t)}}
                                 |-> IF q \in DOMAIN files /\ ~IsPrefix(d, q)
                                     THEN files[q]
                                     ELSE files[d \o SubSeq(q, Len(dst) + 1, Len(q))]]
                    /\ UNCHANGED <<pc, exc>>
            /\ stack' = TodoLess(d)
    /\ UNCHANGED <<cur, moved, orgFrame>>

OrgExtrasDone ==
    /\ pc = "extras"
    /\ Top.todo = {}
    /\ pc' = "return"
    /\ UNCHANGED <<exc, dirs, files, stack, cur, moved, orgFrame>>

\* The call returns: to the loop of the call that made it, or to the caller
\* of the outermost call, whose frame is kept to tell what was asked.
OrgReturn ==
    /\ pc = "return"
    /\ IF Len(stack) = 1
       THEN /\ pc' = "done"
            /\ UNCHANGED stack
       ELSE /\ pc' = "container"
            /\ stack' = SubSeq(stack, 1, Len(stack) - 1)
    /\ UNCHANGED <<exc, dirs, files, cur, moved, orgFrame>>

OrgNext ==
    \/ OrgCheck
    \/ OrgContainerLoop
    \/ OrgMakeDirs
    \/ OrgMoveVideo
    \/ OrgMoveVideoFails
    \/ OrgVideosDone
    \/ OrgSubRead
    \/ OrgSubReadFails
    \/ OrgSubWrite
    \/ OrgSubWriteFails
    \/ OrgSubUnlink
    \/ OrgSubUnlinkFails
    \/ OrgSubsDone
    \/ OrgMoveExtra
    \/ OrgExtrasDone
    \/ OrgReturn

SpecOrg == OrgInit /\ [][OrgNext]_vars

---------------------------------------------------------------------------
(* What the claims about fix_name speak of, stated on the filename itself   *)
(* and not through RSplit or ScanRules.                                     *)

Dots(f) == {i \in 1..Len(f) : f[i] = DOT}

\* The positions <<i, j>> of the last two dots of f (none when f has fewer).
LastTwoDots(f) ==
    {ij \in Dots(f) \X Dots(f) :
        /\ ij[1] < ij[2]
        /\ \A k \in Dots(f) : k <= ij[1] \/ k = ij[2]}

NameOf(f, i) == SubSeq(f, 1, i - 1)
TagOf(f, i, j) == SubSeq(f, i + 1, j - 1)
ExtOf(f, j) == SubSeq(f, j + 1, Len(f))

Dotted(name, tag, ext) == name \o <<DOT>> \o tag \o <<DOT>> \o ext

\* A rule matches a tag: equal as written when case-sensitive, equal after
\* lower-casing both when not.
ClaimMatch(rule, tag) ==
    IF rule.case_sensitive THEN tag = rule.source
    ELSE Lower(tag) = Lower(rule.source)

Matching(rs, tag) == {k \in 1..Len(rs) : ClaimMatch(rs[k], tag)}

Least(S) == CHOOSE k \in S : \A m \in S : k <= m

\* C1: for a filename name.TAG.ext with a non-empty TAG that some rule
\* matches, fix_name returns name.T.ext where T is the target of the matching
\* rule of least index; the case-sensitive rule (EN, eng) leaves tag en alone
\* and the case-insensitive rule (en, eng) rewrites tag EN.
C1_FirstMatchWins ==
    pc = "fixed" =>
      \A ij \in LastTwoDots(filename) :
        LET name == NameOf(filename, ij[1])
            tag  == TagOf(filename, ij[1], ij[2])
            ext  == ExtOf(filename, ij[2])
            M    == Matching(rules, tag)
        IN /\ (tag # <<>> /\ M # {}) =>
                result = Dotted(name, rules[Least(M)].target, ext)
           /\ (rules = <<Rule(EN, eng, TRUE)>> /\ tag = en) =>
                result = filename
           /\ (rules = <<Rule(en, eng, FALSE)>> /\ tag = EN) =>
                result = Dotted(name, eng, ext)

\* C1's case: two rules match the tag, with different targets, and the
\* first one's target is in the result.
C1_Witness ==
    /\ pc = "fixed"
    /\ Len(rules) = 2
    /\ rules[1].target # rules[2].target
    /\ rules[1].source # rules[2].source
    /\ \E ij \in LastTwoDots(filename) :
         /\ TagOf(filename, ij[1], ij[2]) # <<>>
         /\ Matching(rules, TagOf(filename, ij[1], ij[2])) = {1, 2}
         /\ result = Dotted(NameOf(filename, ij[1]), rules[1].target,
                            ExtOf(filename, ij[2]))
         /\ result # filename

\* C2: a filename name.TAG.ext whose TAG no rule matches is returned
\* unchanged whatever the default locale is, and a filename that carries a
\* tag is only ever rewritten with a rule's target, never with the default
\* locale.
C2_UnmatchedTagUnchanged ==
    pc = "fixed" =>
      \A ij \in LastTwoDots(filename) :
        LET name == NameOf(filename, ij[1])
            tag  == TagOf(filename, ij[1], ij[2])
            ext  == ExtOf(filename, ij[2])
        IN /\ Matching(rules, tag) = {} => result = filename
           /\ \/ result = filename
              \/ \E k \in 1..Len(rules) :
                   result = Dotted(name, rules[k].target, ext)

\* C2's case: rules exist, none matches the tag, a default locale is set,
\* and the filename came back as it went in.
C2_Witness ==
    /\ pc = "fixed"
    /\ rules # <<>>
    /\ default_locale = Some(de)
    /\ \E ij \in LastTwoDots(filename) :
         /\ TagOf(filename, ij[1], ij[2]) # <<>>
         /\ Matching(rules, TagOf(filename, ij[1], ij[2])) = {}
    /\ result = filename

\* C3 as stated: for a filename with exactly one dot, whenever a default
\* locale D is set (None excepted, the empty string included), fix_name
\* returns name.D.ext.
C3_AsStated ==
    (pc = "fixed" /\ Cardinality(Dots(filename)) = 1 /\ default_locale # None) =>
      \A j \in Dots(filename) :
        result = Dotted(NameOf(filename, j), default_locale[1],
                        ExtOf(filename, j))

\* C3, amended: for a filename with exactly one dot and a non-empty default
\* locale D, fix_name returns name.D.ext, whatever the rule list holds.
C3_DefaultLocaleAppended ==
    (/\ pc = "fixed"
     /\ Cardinality(Dots(filename)) = 1
     /\ default_locale # None
     /\ default_locale[1] # <<>>) =>
      \A j \in Dots(filename) :
        result = Dotted(NameOf(filename, j), default_locale[1],
                        ExtOf(filename, j))

\* C3's case: a one-dot filename whose two parts both match a rule, and the
\* default locale went in between them.
C3_Witness ==
    /\ pc = "fixed"
    /\ filename = en \o <<DOT>> \o EN
    /\ rules # <<>>
    /\ Matching(rules, en) # {}
    /\ default_locale = Some(de)
    /\ result = Dotted(en, de, EN)

---------------------------------------------------------------------------
(* The claims about Rule.from_csv. *)

Blank(cell) == cell = None \/ cell = Some(<<>>)

\* Some row lacks a source or a target: the column is not in the file, the
\* row is too short to reach it, or the cell is empty.
Malformed(h, rows) ==
    \E i \in 1..Len(rows) :
        \/ "source" \notin h \/ Blank(rows[i]["source"])
        \/ "target" \notin h \/ Blank(rows[i]["target"])

\* Every row has a source and a target, and a flag wherever the file has
\* the flag's column.
WellFormed(h, rows) ==
    /\ ~Malformed(h, rows)
    /\ \A i \in 1..Len(rows) :
         "is_case_sensitive" \in h => rows[i]["is_case_sensitive"] # None

\* The rule the i-th row stands for.
RowMeaning(h, row) ==
    Rule(row["source"], row["target"],
         /\ "is_case_sensitive" \in h
         /\ Lower(row["is_case_sensitive"][1]) = <<"t", "r", "u", "e">>)

\* C4: once from_csv has returned on a well-formed file of n rows, the value
\* returned is a sequence of n rules, the i-th built from the i-th row.
C4_LoadReturnsRowsInOrder ==
    (csv_returned # None /\ WellFormed(csv_header, csv_rows)) =>
        /\ csv_returned[1] # None
        /\ Len(csv_returned[1][1]) = Len(csv_rows)
        /\ \A i \in 1..Len(csv_rows) :
             csv_returned[1][1][i] = RowMeaning(csv_header, csv_rows[i])

\* C5: once the load of a file with a malformed row has ended, it has ended
\* in an error and has returned nothing. The code defines no
\* MalformedRuleError, so any exception is taken for the error the claim
\* names: only a load that ends without one breaks the formula.
C5_MalformedRowAborts ==
    (pc # "csv_loop" /\ Malformed(csv_header, csv_rows)) =>
        /\ exc # ""
        /\ csv_returned = None

---------------------------------------------------------------------------
(* The claims about MediaOrganizer. *)

\* The outermost call, the one the claims are about.
Outer == stack[1]

\* The files that were directly in d when organize_directory was called.
WasIn(d) == {p \in DOMAIN files0 : ChildOf(p, d)}

\* The container heuristic, on what a frame's call found in its directory.
IsContainer(f) ==
    Cardinality(f.video_files) <= 2 /\ Cardinality(f.extra_candidates) >= 3

\* C6: when organize_directory(season = N, directory = D) has completed on
\* a D that is no container, D/Season NN and D/EXTRA/Season NN exist, every
\* video that was in D is at D/Season NN/<name>, every subtitle that was in
\* D is at D/Season NN/<fix_name(name)>, and none of them is still in D.
C6_SeasonLayout ==
    (pc = "done" /\ ~IsContainer(Outer)) =>
        /\ SeasonDir(Outer) \in dirs
        /\ ExtraDir(Outer) \in dirs
        /\ \A p \in WasIn(Outer.directory) :
             /\ IsVideo(Name(p)) =>
                  /\ Append(SeasonDir(Outer), Name(p)) \in DOMAIN files
                  /\ p \notin DOMAIN files
             /\ IsSubtitle(Name(p)) =>
                  /\ Append(SeasonDir(Outer),
                            fix_name(rules, default_locale, Name(p))) \in DOMAIN files
                  /\ p \notin DOMAIN files

\* C7: a file move that has ended, onto a destination that was free, has
\* left the file at exactly one place: at the destination alone when it
\* succeeded, at the source alone, with no destination file made, when it
\* failed.
C7_MoveAllOrNothing ==
    \A m \in moved :
        ~m.dst_was_there =>
            IF m.ok
            THEN m.dst \in DOMAIN files /\ m.src \notin DOMAIN files
            ELSE m.src \in DOMAIN files /\ m.dst \notin DOMAIN files

\* C8: a call that finds its directory D to be a container calls
\* organize_directory on subdirectories of D, and D itself keeps the files
\* and folders it had.
C8_ContainerRecursesIntoSubdirs ==
    \A k \in 1..Len(stack) :
        IsContainer(stack[k]) =>
            /\ k < Len(stack) =>
                 stack[k + 1].directory \in stack[k].extra_candidates
            /\ {p \in DOMAIN files : ChildOf(p, stack[k].directory)}
                 = WasIn(stack[k].directory)
            /\ {q \in dirs : ChildOf(q, stack[k].directory)}
                 = stack[k].extra_candidates

\* C9: no call is made on a directory that a call in progress is organizing
\* and has found with the same content, and the recursion never runs into
\* the interpreter's limit.
C9_NoReentry ==
    /\ exc # "RecursionError"
    /\ \A i \in 1..Len(stack) : \A j \in 1..Len(stack) :
         i < j =>
            ~(/\ stack[i].directory = stack[j].directory
              /\ stack[i].video_files = stack[j].video_files
              /\ stack[i].sub_files = stack[j].sub_files
              /\ stack[i].extra_candidates = stack[j].extra_candidates)

\* C10: when _move_subtitles has completed without error, the season folder
\* holds, for every subtitle that was in the directory, a file with that
\* subtitle's content, and every file the season folder held beforehand is
\* still there with the content it had.
C10_NoSubtitleLost ==
    (pc \in {"extras", "return", "done"} /\ Len(stack) = 1) =>
        /\ \A sub \in Outer.sub_files :
             \E p \in DOMAIN files :
                /\ ChildOf(p, SeasonDir(Outer))
                /\ files[p] = files0[sub]
        /\ \A p \in DOMAIN files0 :
             ChildOf(p, SeasonDir(Outer)) =>
                p \in DOMAIN files /\ files[p] = files0[p]

===========================================================================
